---- MODULE Spec2Model ----
(***************************************************************************)
(* Model of src/vm/example.py: run_example, create_nic and                 *)
(* create_vm_parameters.  The script is one thread of control that issues  *)
(* calls to a remote resource-management service.  A begin_* call returns  *)
(* a poller (a pending long-running operation) or raises; result() on the  *)
(* poller returns the final state or raises.  The service itself is        *)
(* outside the repository: every call may succeed or raise, and what a     *)
(* get / result() returns is drawn from small sets.                        *)
(***************************************************************************)
EXTENDS Integers, Sequences, FiniteSets, TLC

VARIABLES
    pc,               \* the statement run_example / create_nic executes next
    calls,            \* the remote calls issued so far: <<[op, body], ...>>
    pending,          \* pollers returned by begin_* on which result() has not yet returned or raised
    awaited,          \* operations on which result() was called, in order
    exc,              \* the exception in flight (NoExc when none)
    failures,         \* every exception raised so far: <<[at, cls, kind, ncalls], ...>>,
                      \* ncalls the number of calls issued when it was raised
    out,              \* what the script has printed
    nic,              \* create_nic's return value (line 133)
    vm_parameters,    \* line 141 / 275
    data_disk,        \* line 176
    virtual_machine,  \* line 180 / 211
    fetched,          \* the data-disk list of the VM as line 180 fetched it
    os_disk,          \* line 222
    reported          \* the OS disk as line 222 fetched it, before line 227 / 229 change it

vars == <<pc, calls, pending, awaited, exc, failures, out, nic, vm_parameters,
          data_disk, virtual_machine, fetched, os_disk, reported>>

ctl == <<pc, calls, pending, awaited, exc, failures, out>>
locals == <<nic, vm_parameters, data_disk, virtual_machine, fetched, os_disk, reported>>

----------------------------------------------------------------------------
(* Bounds of the model. *)

\* longest data-disk list the service reports for the VM
MaxDisks == 2
\* interface identifiers the service may hand out: 1..MaxNicId
MaxNicId == 2
\* largest OS-disk size (GB) the service reports
MaxSize == 1

(* Program constants. *)

DefaultOsDiskSizeGb == 30
ResizeDeltaGb == 10
DataDiskLun == 12
DataDiskSizeGb == 1

DATA_DISK_NAME == "mydatadisk1"

VM_REFERENCE ==
    [linux   |-> [publisher |-> "Canonical", offer |-> "UbuntuServer",
                  sku |-> "16.04-LTS", version |-> "latest"],
     windows |-> [publisher |-> "MicrosoftWindowsServer", offer |-> "WindowsServer",
                  sku |-> "2016-Datacenter", version |-> "latest"]]

----------------------------------------------------------------------------
(* Exceptions.  The except clause of run_example tells classes apart only  *)
(* as CloudError / anything else; the kind is the service condition that   *)
(* caused the exception.                                                   *)

ExcClasses == {"CloudError", "Other"}
FailureKinds == {"ResourceCreationFailed", "OperationRejectedByService",
                 "OperationTimedOut", "NotFound"}
Exceptions == [cls : ExcClasses, kind : FailureKinds]
NoExc == [cls |-> "none", kind |-> "none"]
AttributeError == [cls |-> "Other", kind |-> "AttributeError"]

----------------------------------------------------------------------------
(* Control flow. *)

\* The statements of run_example (with create_nic inlined at its call), in
\* program order.
ProgramOrder ==
    << "group_create",
       "storage_begin", "storage_result",
       "vnet_begin", "vnet_result", "subnet_begin", "subnet_result",
       "nic_begin", "nic_result",
       "vm_linux_begin", "vm_linux_result",
       "tag_begin", "tag_result",
       "disk_create_begin", "disk_create_result",
       "vm_get",
       "attach_begin", "attach_result",
       "detach_begin", "detach_result",
       "deallocate_begin", "deallocate_result",
       "disk_get", "disk_update_begin", "disk_update_result",
       "start_begin", "start_result",
       "restart_begin", "restart_result",
       "stop_begin", "stop_result",
       "list_all", "list_group",
       "vm_delete_begin", "vm_delete_result",
       "vm_windows_begin", "vm_windows_result",
       "else",
       "finally_begin", "finally_result",
       "done" >>

IndexOf(l) == CHOOSE i \in 1..Len(ProgramOrder) : ProgramOrder[i] = l

\* The statements inside the try block (lines 119-278), create_nic included.
TryBody == { ProgramOrder[i] : i \in IndexOf("storage_begin")..IndexOf("vm_windows_result") }

\* The statements of create_nic (lines 295-334).
CreateNicBody == { ProgramOrder[i] : i \in IndexOf("vnet_begin")..IndexOf("nic_result") }


\* Faulty variants of After.
\* The else branch returns from run_example: the group is deleted only after
\* a failure.
After_ElseReturns(l) ==
    IF l = "else" THEN "done" ELSE ProgramOrder[IndexOf(l) + 1]

\* storage_async_operation.result() (line 130) is left out.
After_NoStorageWait(l) ==
    IF l = "storage_begin" THEN "vnet_begin" ELSE ProgramOrder[IndexOf(l) + 1]

\* The deallocation (lines 214-217) is left out.
After_SkipDeallocate(l) ==
    IF l = "detach_result" THEN "disk_get" ELSE ProgramOrder[IndexOf(l) + 1]

\* The statement that follows statement l when l completes normally.
After(l) == ProgramOrder[IndexOf(l) + 1]

\* Faulty variants of OnRaise.
\* The deletion sits after the try statement instead of in a finally block:
\* an exception no handler matches leaves run_example at once.
OnRaise_NoFinally(at, cls) ==
    IF at \in TryBody /\ cls = "CloudError" THEN "except" ELSE "done"

\* create_nic swallows a failed wait for the virtual network and goes on.
OnRaise_VnetSwallowed(at, cls) ==
    IF at = "vnet_result" THEN "subnet_begin"
    ELSE IF at \in TryBody
         THEN IF cls = "CloudError" THEN "except" ELSE "finally_begin"
         ELSE "done"

\* Every statement of the try block is guarded on its own and the run goes on
\* with the next statement.
OnRaise_Continue(at, cls) ==
    IF at \in TryBody THEN ProgramOrder[IndexOf(at) + 1] ELSE "done"

\* Where control goes when statement `at` raises an exception of class cls:
\* try / except CloudError / else / finally of lines 118-289.  Line 116 and
\* the finally block itself are not protected by any handler.
OnRaise(at, cls) ==
    IF at \in TryBody
    THEN IF cls = "CloudError" THEN "except" ELSE "finally_begin"
    ELSE "done"

Raise(at, e) ==
    /\ pc' = OnRaise(at, e.cls)
    /\ exc' = e
    /\ failures' = Append(failures, [at |-> at, cls |-> e.cls, kind |-> e.kind,
                                      ncalls |-> Len(calls')])

\* print(...): banners are sequences of printed lines
Echo(lines) == out' = out \o lines

Request(op, body) == [op |-> op, body |-> body]

NoBody == [location |-> "LOCATION"]

\* A synchronous call (get, list, resource_groups.create_or_update) returns.
CallOk(at, banner, op, body) ==
    /\ pc = at
    /\ Echo(banner)
    /\ calls' = Append(calls, Request(op, body))
    /\ pc' = After(at)
    /\ UNCHANGED <<pending, awaited, exc, failures>>

\* A synchronous call raises.
CallRaises(at, banner, op, body) ==
    /\ pc = at
    /\ Echo(banner)
    /\ calls' = Append(calls, Request(op, body))
    /\ \E e \in Exceptions : Raise(at, e)
    /\ UNCHANGED <<pending, awaited>>

\* begin_*: the request is sent; a poller comes back, or the call raises.
Begin(at, banner, op, body) ==
    /\ pc = at
    /\ Echo(banner)
    /\ calls' = Append(calls, Request(op, body))
    /\ UNCHANGED awaited
    /\ \/ /\ pending' = pending \cup {op}
          /\ pc' = After(at)
          /\ UNCHANGED <<exc, failures>>
       \/ /\ \E e \in Exceptions : Raise(at, e)
          /\ UNCHANGED pending

\* poller.result() returns the final state.
ResultOk(at, op) ==
    /\ pc = at
    /\ op \in pending
    /\ pending' = pending \ {op}
    /\ awaited' = Append(awaited, op)
    /\ pc' = After(at)
    /\ UNCHANGED <<calls, exc, failures>>

\* poller.result() raises: the operation ended in failure or the wait did.
ResultRaises(at, op) ==
    /\ pc = at
    /\ op \in pending
    /\ pending' = pending \ {op}
    /\ awaited' = Append(awaited, op)
    /\ UNCHANGED calls
    /\ \E e \in Exceptions : Raise(at, e)

\* begin_* immediately followed by .result() whose value is not used.
Result(at, op) == (ResultOk(at, op) \/ ResultRaises(at, op)) /\ UNCHANGED out

----------------------------------------------------------------------------
(* Pure helpers of the script. *)

\* Faulty variant of create_vm_parameters: the Windows VM is given an
\* interface of its own.
create_vm_parameters_OwnNic(nic_id, vm_reference) ==
    [location |-> "LOCATION",
     os_profile |-> [computer_name |-> "VM_NAME", admin_username |-> "userlogin"],
     hardware_profile |-> [vm_size |-> "Standard_DS1_v2"],
     storage_profile |-> [image_reference |-> vm_reference],
     network_profile |-> [network_interfaces |->
        << [id |-> IF vm_reference.offer = "WindowsServer" THEN nic_id + 1 ELSE nic_id] >>]]

\* create_vm_parameters(nic_id, vm_reference, LOCATION), lines 337-363
create_vm_parameters(nic_id, vm_reference) ==
    [location |-> "LOCATION",
     os_profile |-> [computer_name |-> "VM_NAME", admin_username |-> "userlogin"],
     hardware_profile |-> [vm_size |-> "Standard_DS1_v2"],
     storage_profile |-> [image_reference |-> vm_reference],
     network_profile |-> [network_interfaces |-> << [id |-> nic_id] >>]]

\* The descriptor line 187 appends: a plain dict, not an SDK model object.
AttachDescriptor(disk_id) ==
    [name |-> DATA_DISK_NAME, lun |-> DataDiskLun, managed_disk |-> disk_id,
     kind |-> "dict"]

\* begin_create_or_update(..., virtual_machine) serialises the model object it
\* is given; the SDK's serialiser first turns every nested dict into the model
\* class of its field, in place, so that after the call the list holds model
\* objects only (this is what lets line 205 read disk.name on the appended
\* entry).
SdkNormalise(disks) ==
    [i \in 1..Len(disks) |-> [disks[i] EXCEPT !.kind = "model"]]

\* Faulty variant of FilterOutName: the comparison is == instead of !=.
RECURSIVE FilterOutName_KeepsNamed(_, _)
FilterOutName_KeepsNamed(disks, name) ==
    IF disks = <<>> THEN <<>>
    ELSE IF Head(disks).name = name
         THEN <<Head(disks)>> \o FilterOutName_KeepsNamed(Tail(disks), name)
         ELSE FilterOutName_KeepsNamed(Tail(disks), name)

\* [disk for disk in data_disks if disk.name != 'mydatadisk1'], line 205
RECURSIVE FilterOutName(_, _)
FilterOutName(disks, name) ==
    IF disks = <<>> THEN <<>>
    ELSE IF Head(disks).name # name
         THEN <<Head(disks)>> \o FilterOutName(Tail(disks), name)
         ELSE FilterOutName(Tail(disks), name)

\* disk.name on a dict raises AttributeError; on a model object it does not.
NameReadable(disks) == \A i \in 1..Len(disks) : disks[i].kind = "model"

\* Faulty variant of NewOsDiskSize: the test is `is None` instead of `not`,
\* so a reported size of zero is kept.
NewOsDiskSize_NoneOnly(disk) ==
    LET base == IF ~disk.has_size THEN DefaultOsDiskSizeGb ELSE disk.disk_size_gb
    IN  base + ResizeDeltaGb

\* lines 223-229: the size that is re-submitted for the OS disk
NewOsDiskSize(disk) ==
    LET falsy == ~disk.has_size \/ disk.disk_size_gb = 0
        base  == IF falsy THEN DefaultOsDiskSizeGb ELSE disk.disk_size_gb
    IN  base + ResizeDeltaGb

----------------------------------------------------------------------------
(* What the service may return. *)

NicIds == 1..MaxNicId
DiskNames == {DATA_DISK_NAME, "datadisk0"}

LunOf(name) == IF name = DATA_DISK_NAME THEN DataDiskLun ELSE 0

ModelDisk(name) == [name |-> name, lun |-> LunOf(name), managed_disk |-> name,
                    kind |-> "model"]

\* the data-disk lists a fetched VM may hold
DiskLists ==
    UNION { [1..n -> {ModelDisk(d) : d \in DiskNames}] : n \in 0..MaxDisks }

\* the OS disk as disks.get reports it: disk_size_gb may be missing (None)
OsDisks == {[has_size |-> FALSE, disk_size_gb |-> 0]}
           \cup {[has_size |-> TRUE, disk_size_gb |-> s] : s \in 0..MaxSize}

Unset == [unset |-> TRUE]


----------------------------------------------------------------------------
(* The state after the clients are constructed (lines 68-108). *)

Init ==
    /\ pc = "group_create"
    /\ calls = <<>>
    /\ pending = {}
    /\ awaited = <<>>
    /\ exc = NoExc
    /\ failures = <<>>
    /\ out = <<>>
    /\ nic = Unset
    /\ vm_parameters = Unset
    /\ data_disk = Unset
    /\ virtual_machine = Unset
    /\ fetched = <<>>
    /\ os_disk = Unset
    /\ reported = Unset

----------------------------------------------------------------------------
(* run_example, lines 114-289, and create_nic, lines 292-334. *)

\* lines 115-116: synchronous, outside the try block
CreateResourceGroup ==
    /\ \/ CallOk("group_create", <<"Create Resource Group">>, "GroupCreate", NoBody)
       \/ CallRaises("group_create", <<"Create Resource Group">>, "GroupCreate", NoBody)
    /\ UNCHANGED locals

\* lines 120-129
BeginCreateStorageAccount ==
    /\ Begin("storage_begin", <<"Create a storage account">>, "StorageCreate",
             [sku |-> "standard_lrs", kind |-> "storage"])
    /\ UNCHANGED locals

\* line 130
StorageAccountResult ==
    /\ Result("storage_result", "StorageCreate")
    /\ UNCHANGED locals

\* create_nic, lines 296-306
BeginCreateVnet ==
    /\ Begin("vnet_begin", <<"Create Vnet">>, "VnetCreate",
             [address_prefixes |-> <<"10.0.0.0/16">>])
    /\ UNCHANGED locals

\* create_nic, line 307
VnetResult ==
    /\ Result("vnet_result", "VnetCreate")
    /\ UNCHANGED locals

\* create_nic, lines 310-316
BeginCreateSubnet ==
    /\ Begin("subnet_begin", <<"Create Subnet">>, "SubnetCreate",
             [address_prefix |-> "10.0.0.0/24"])
    /\ UNCHANGED locals

\* create_nic, line 317
SubnetResult ==
    /\ Result("subnet_result", "SubnetCreate")
    /\ UNCHANGED locals

\* create_nic, lines 320-333
BeginCreateNic ==
    /\ Begin("nic_begin", <<"Create NIC">>, "NicCreate",
             [ip_configurations |-> <<"IP_CONFIG_NAME">>])
    /\ UNCHANGED locals

\* create_nic, line 334, and the assignment of line 133
NicResult ==
    /\ \/ /\ ResultOk("nic_result", "NicCreate")
          /\ \E id \in NicIds : nic' = [id |-> id]
       \/ /\ ResultRaises("nic_result", "NicCreate")
          /\ UNCHANGED nic
    /\ UNCHANGED <<out, vm_parameters, data_disk, virtual_machine, fetched, os_disk, reported>>

\* lines 140-145
BeginCreateLinuxVm ==
    LET params == create_vm_parameters(nic.id, VM_REFERENCE.linux)
    IN  /\ Begin("vm_linux_begin", <<"Creating Linux Virtual Machine">>,
                 "VmCreateLinux", params)
        /\ vm_parameters' = params
        /\ UNCHANGED <<nic, data_disk, virtual_machine, fetched, os_disk, reported>>

\* line 146
LinuxVmResult ==
    /\ Result("vm_linux_result", "VmCreateLinux")
    /\ UNCHANGED locals

\* lines 149-160
BeginTagVm ==
    /\ Begin("tag_begin", <<"Tag Virtual Machine">>, "VmTag",
             [tags |-> [who_rocks |-> "python", where |-> "on azure"]])
    /\ UNCHANGED locals

\* line 161
TagResult ==
    /\ Result("tag_result", "VmTag")
    /\ UNCHANGED locals

\* lines 164-175
BeginCreateDataDisk ==
    /\ Begin("disk_create_begin", <<"Create (empty) managed Data Disk">>,
             "DiskCreate",
             [name |-> DATA_DISK_NAME, disk_size_gb |-> DataDiskSizeGb,
              create_option |-> "empty"])
    /\ UNCHANGED locals

\* line 176
DataDiskResult ==
    /\ \/ /\ ResultOk("disk_create_result", "DiskCreate")
          /\ data_disk' = [id |-> DATA_DISK_NAME]
       \/ /\ ResultRaises("disk_create_result", "DiskCreate")
          /\ UNCHANGED data_disk
    /\ UNCHANGED <<out, nic, vm_parameters, virtual_machine, fetched, os_disk, reported>>

\* lines 179-183
GetVirtualMachine ==
    /\ \/ /\ CallOk("vm_get", <<"Get Virtual Machine by Name">>, "VmGet", NoBody)
          /\ \E disks \in DiskLists :
                /\ virtual_machine' = [data_disks |-> disks]
                /\ fetched' = disks
       \/ /\ CallRaises("vm_get", <<"Get Virtual Machine by Name">>, "VmGet", NoBody)
          /\ UNCHANGED <<virtual_machine, fetched>>
    /\ UNCHANGED <<nic, vm_parameters, data_disk, os_disk, reported>>


\* lines 186-199: append the descriptor to the fetched object's list, then
\* re-submit the whole object
BeginAttachDataDisk ==
    LET appended == Append(virtual_machine.data_disks, AttachDescriptor(data_disk.id))
        sent     == SdkNormalise(appended)
    IN  /\ Begin("attach_begin", <<"Attach Data Disk">>, "VmAttach",
                 [data_disks |-> sent])
        /\ virtual_machine' = [data_disks |-> sent]
        /\ UNCHANGED <<nic, vm_parameters, data_disk, fetched, os_disk, reported>>

\* line 200
AttachResult ==
    /\ Result("attach_result", "VmAttach")
    /\ UNCHANGED locals

\* lines 203-210: filter the list in place by name, then re-submit the object
BeginDetachDataDisk ==
    LET data_disks == virtual_machine.data_disks
        kept       == FilterOutName(data_disks, DATA_DISK_NAME)
        sent       == SdkNormalise(kept)
    IN  /\ pc = "detach_begin"
        /\ \/ /\ NameReadable(data_disks)
              /\ Begin("detach_begin", <<"Detach Data Disk">>, "VmDetach",
                       [data_disks |-> sent])
              /\ virtual_machine' = [data_disks |-> sent]
           \/ /\ ~NameReadable(data_disks)
              /\ Echo(<<"Detach Data Disk">>)
              /\ UNCHANGED <<calls, pending, awaited, virtual_machine>>
              /\ Raise("detach_begin", AttributeError)
        /\ UNCHANGED <<nic, vm_parameters, data_disk, fetched, os_disk, reported>>

\* line 211: virtual_machine is rebound to the VM the service stored, which is
\* the object that was submitted
DetachResult ==
    /\ \/ /\ ResultOk("detach_result", "VmDetach")
          /\ virtual_machine' = calls[Len(calls)].body
       \/ /\ ResultRaises("detach_result", "VmDetach")
          /\ UNCHANGED virtual_machine
    /\ UNCHANGED <<out, nic, vm_parameters, data_disk, fetched, os_disk, reported>>

\* lines 214-216
BeginDeallocate ==
    /\ Begin("deallocate_begin", <<"Deallocating the VM (to prepare for a disk resize)">>,
             "VmDeallocate", NoBody)
    /\ UNCHANGED locals

\* line 217
DeallocateResult ==
    /\ Result("deallocate_result", "VmDeallocate")
    /\ UNCHANGED locals

\* lines 220-222
GetOsDisk ==
    /\ \/ /\ CallOk("disk_get", <<"Update OS disk size">>, "DiskGet", NoBody)
          /\ \E d \in OsDisks : os_disk' = d /\ reported' = d
       \/ /\ CallRaises("disk_get", <<"Update OS disk size">>, "DiskGet", NoBody)
          /\ UNCHANGED <<os_disk, reported>>
    /\ UNCHANGED <<nic, vm_parameters, data_disk, virtual_machine, fetched>>

\* lines 223-235
BeginUpdateOsDisk ==
    LET falsy   == ~os_disk.has_size \/ os_disk.disk_size_gb = 0
        warning == IF falsy
                   THEN <<"Server is not returning the OS disk size, possible bug in the server?",
                          "Assuming that the OS disk size is 30 GB">>
                   ELSE <<>>
        resized == [has_size |-> TRUE, disk_size_gb |-> NewOsDiskSize(os_disk)]
    IN  /\ Begin("disk_update_begin", warning, "DiskUpdate", resized)
        /\ os_disk' = resized
        /\ UNCHANGED <<nic, vm_parameters, data_disk, virtual_machine, fetched, reported>>

\* line 236
UpdateOsDiskResult ==
    /\ Result("disk_update_result", "DiskUpdate")
    /\ UNCHANGED locals

\* lines 239-241
BeginStart ==
    /\ Begin("start_begin", <<"Start VM">>, "VmStart", NoBody)
    /\ UNCHANGED locals

\* line 242
StartResult ==
    /\ Result("start_result", "VmStart")
    /\ UNCHANGED locals

\* lines 245-247
BeginRestart ==
    /\ Begin("restart_begin", <<"Restart VM">>, "VmRestart", NoBody)
    /\ UNCHANGED locals

\* line 248
RestartResult ==
    /\ Result("restart_result", "VmRestart")
    /\ UNCHANGED locals

\* lines 251-253
BeginPowerOff ==
    /\ Begin("stop_begin", <<"Stop VM">>, "VmStop", NoBody)
    /\ UNCHANGED locals

\* line 254
PowerOffResult ==
    /\ Result("stop_result", "VmStop")
    /\ UNCHANGED locals

\* lines 257-259 (the names printed for the listed VMs are not modelled)
ListAll ==
    /\ \/ CallOk("list_all", <<"List VMs in subscription">>, "VmListAll", NoBody)
       \/ CallRaises("list_all", <<"List VMs in subscription">>, "VmListAll", NoBody)
    /\ UNCHANGED locals

\* lines 262-264
ListInGroup ==
    /\ \/ CallOk("list_group", <<"List VMs in resource group">>, "VmList", NoBody)
       \/ CallRaises("list_group", <<"List VMs in resource group">>, "VmList", NoBody)
    /\ UNCHANGED locals

\* lines 267-269
BeginDeleteVm ==
    /\ Begin("vm_delete_begin", <<"Delete VM">>, "VmDelete", NoBody)
    /\ UNCHANGED locals

\* line 270
DeleteVmResult ==
    /\ Result("vm_delete_result", "VmDelete")
    /\ UNCHANGED locals

\* lines 273-277
BeginCreateWindowsVm ==
    LET params == create_vm_parameters(nic.id, VM_REFERENCE.windows)
    IN  /\ Begin("vm_windows_begin", <<"Creating Windows Virtual Machine">>,
                 "VmCreateWindows", params)
        /\ vm_parameters' = params
        /\ UNCHANGED <<nic, data_disk, virtual_machine, fetched, os_disk, reported>>

\* line 278
WindowsVmResult ==
    /\ Result("vm_windows_result", "VmCreateWindows")
    /\ UNCHANGED locals

\* lines 279-280: the only handler; it handles the exception
ExceptCloudError ==
    /\ pc = "except"
    /\ exc.cls = "CloudError"
    /\ Echo(<<"A VM operation failed:">>)
    /\ exc' = NoExc
    /\ pc' = "finally_begin"
    /\ UNCHANGED <<calls, pending, awaited, failures>>
    /\ UNCHANGED locals

\* lines 281-282
Else ==
    /\ pc = "else"
    /\ Echo(<<"All example operations completed successfully!">>)
    /\ pc' = After("else")
    /\ UNCHANGED <<calls, pending, awaited, exc, failures>>
    /\ UNCHANGED locals

\* lines 283-287
FinallyBeginDelete ==
    /\ Begin("finally_begin", <<"Delete Resource Group">>, "GroupDelete", NoBody)
    /\ UNCHANGED locals

\* lines 288-289; afterwards an exception still in flight propagates to the
\* caller of run_example
FinallyDeleteResult ==
    /\ \/ /\ ResultOk("finally_result", "GroupDelete")
          /\ Echo(<<"Deleted: GROUP_NAME">>)
       \/ /\ ResultRaises("finally_result", "GroupDelete")
          /\ UNCHANGED out
    /\ UNCHANGED locals

Next ==
    \/ CreateResourceGroup
    \/ BeginCreateStorageAccount \/ StorageAccountResult
    \/ BeginCreateVnet \/ VnetResult
    \/ BeginCreateSubnet \/ SubnetResult
    \/ BeginCreateNic \/ NicResult
    \/ BeginCreateLinuxVm \/ LinuxVmResult
    \/ BeginTagVm \/ TagResult
    \/ BeginCreateDataDisk \/ DataDiskResult
    \/ GetVirtualMachine
    \/ BeginAttachDataDisk \/ AttachResult
    \/ BeginDetachDataDisk \/ DetachResult
    \/ BeginDeallocate \/ DeallocateResult
    \/ GetOsDisk
    \/ BeginUpdateOsDisk \/ UpdateOsDiskResult
    \/ BeginStart \/ StartResult
    \/ BeginRestart \/ RestartResult
    \/ BeginPowerOff \/ PowerOffResult
    \/ ListAll \/ ListInGroup
    \/ BeginDeleteVm \/ DeleteVmResult
    \/ BeginCreateWindowsVm \/ WindowsVmResult
    \/ ExceptCloudError
    \/ Else
    \/ FinallyBeginDelete \/ FinallyDeleteResult

Spec == Init /\ [][Next]_vars


----------------------------------------------------------------------------
(* Vocabulary of the properties. *)

Ops == [i \in 1..Len(calls) |-> calls[i].op]
Count(op) == Cardinality({i \in 1..Len(calls) : calls[i].op = op})
Issued(op) == \E i \in 1..Len(calls) : calls[i].op = op
BodyOf(op) == calls[CHOOSE i \in 1..Len(calls) : calls[i].op = op].body
WasAwaited(op) == \E i \in 1..Len(awaited) : awaited[i] = op
FailedAt(S) == \E k \in 1..Len(failures) : failures[k].at \in S
Said(line) == \E i \in 1..Len(out) : out[i] = line
Finished == pc = "done"

\* resource_groups.create_or_update has returned
GroupCreated == Issued("GroupCreate") /\ ~FailedAt({"group_create"})

\* the calls issued after the k-th failure was raised
CallsAfter(k) == SubSeq(calls, failures[k].ncalls + 1, Len(calls))

\* the statements at which a request is sent
SubmitLabels ==
    {"storage_begin", "vnet_begin", "subnet_begin", "nic_begin", "vm_linux_begin",
     "tag_begin", "disk_create_begin", "attach_begin", "detach_begin",
     "deallocate_begin", "disk_update_begin", "start_begin", "restart_begin",
     "stop_begin", "vm_delete_begin", "vm_windows_begin", "finally_begin"}

\* the operations started with begin_*
LongRunningOps ==
    {"StorageCreate", "VnetCreate", "SubnetCreate", "NicCreate", "VmCreateLinux",
     "VmTag", "DiskCreate", "VmAttach", "VmDetach", "VmDeallocate", "DiskUpdate",
     "VmStart", "VmRestart", "VmStop", "VmDelete", "VmCreateWindows", "GroupDelete"}

\* the i-th call raised instead of returning a poller
Refused(i) ==
    \E k \in 1..Len(failures) :
        failures[k].ncalls = i /\ failures[k].at \in SubmitLabels

\* the order in which run_example issues its calls, up to the group deletion
CallOrder ==
    << "GroupCreate", "StorageCreate", "VnetCreate", "SubnetCreate", "NicCreate",
       "VmCreateLinux", "VmTag", "DiskCreate", "VmGet", "VmAttach", "VmDetach",
       "VmDeallocate", "DiskGet", "DiskUpdate", "VmStart", "VmRestart", "VmStop",
       "VmListAll", "VmList", "VmDelete", "VmCreateWindows" >>

IsPrefix(s, t) == Len(s) <= Len(t) /\ \A i \in 1..Len(s) : s[i] = t[i]

CountIn(s, e) == Cardinality({i \in 1..Len(s) : s[i] = e})

\* the same entries, ignoring order
SameEntries(s, t) ==
    /\ Len(s) = Len(t)
    /\ \A i \in 1..Len(s) : CountIn(s, s[i]) = CountIn(t, s[i])

HoldsName(s, name) == \E i \in 1..Len(s) : s[i].name = name

----------------------------------------------------------------------------
(* C1 *)

\* C1: when a statement of the try block has raised (a CloudError or any
\* other exception) and the run has ended, the group deletion was submitted
\* exactly once, no operation is left pending, and result() was called on the
\* deletion unless begin_delete itself raised.
C1_DeleteOnEveryFailure ==
    (Finished /\ FailedAt(TryBody)) =>
        /\ Count("GroupDelete") = 1
        /\ pending = {}
        /\ (~FailedAt({"finally_begin"}) => WasAwaited("GroupDelete"))

\* a run that ended after the wait for the Windows VM raised an exception
\* the handler does not match, with the deletion awaited
C1_Witness ==
    /\ Finished
    /\ \E k \in 1..Len(failures) :
          failures[k].at = "vm_windows_result" /\ failures[k].cls = "Other"
    /\ WasAwaited("GroupDelete")

----------------------------------------------------------------------------
(* C2 *)

\* C2: a run in which nothing raised has issued the group creation exactly
\* once and the group deletion exactly once.
C2_OneCreateOneDelete ==
    (Finished /\ failures = <<>>) =>
        /\ Count("GroupCreate") = 1
        /\ Count("GroupDelete") = 1

\* a run that ended without any failure, every child resource created
C2_Witness ==
    /\ Finished
    /\ failures = <<>>
    /\ Issued("StorageCreate") /\ Issued("NicCreate") /\ Issued("DiskCreate")
    /\ Issued("VmCreateLinux") /\ Issued("VmCreateWindows")

----------------------------------------------------------------------------
(* C3 *)

\* C3: the size submitted for the OS disk is the reported size plus 10 when
\* the reported size is positive and 40 when it is missing or zero, and the
\* statements between the get and the re-submission never raise.
C3_ResizeDefault ==
    /\ Issued("DiskUpdate") =>
          LET sent == BodyOf("DiskUpdate").disk_size_gb
          IN  /\ (reported.has_size /\ reported.disk_size_gb > 0)
                    => sent = reported.disk_size_gb + 10
              /\ (~reported.has_size \/ reported.disk_size_gb = 0)
                    => sent = 40
    /\ \A k \in 1..Len(failures) :
          failures[k].at = "disk_update_begin"
              => calls[failures[k].ncalls].op = "DiskUpdate"

\* the service reported no size and 40 GB was submitted
C3_Witness ==
    /\ Issued("DiskUpdate")
    /\ ~reported.has_size
    /\ BodyOf("DiskUpdate").disk_size_gb = 40
    /\ WasAwaited("DiskUpdate")

\* the service reported a positive size
C3_WitnessPositive ==
    /\ Issued("DiskUpdate")
    /\ reported.has_size /\ reported.disk_size_gb = MaxSize
    /\ BodyOf("DiskUpdate").disk_size_gb = MaxSize + 10

----------------------------------------------------------------------------
(* C4 *)

\* the attach was accepted and completed
AttachCompleted ==
    WasAwaited("VmAttach") /\ ~FailedAt({"attach_result"})

\* once the attach has completed, the detach is re-submitted: filtering the
\* list raises nothing
DetachProceeds ==
    (AttachCompleted /\ pc # "detach_begin") => Issued("VmDetach")

\* C4 (as stated): for any fetched list, after attach and detach the list
\* submitted with the detach, and the list the VM object holds, have exactly
\* the fetched entries, and the detach step goes through.
C4_RoundTripAnyList ==
    /\ DetachProceeds
    /\ Issued("VmDetach") =>
          /\ SameEntries(BodyOf("VmDetach").data_disks, fetched)
          /\ SameEntries(virtual_machine.data_disks, fetched)

\* C4 (amended): the same, for every fetched list that holds no entry named
\* 'mydatadisk1'.
C4_RoundTripFreshName ==
    /\ DetachProceeds
    /\ (Issued("VmDetach") /\ ~HoldsName(fetched, DATA_DISK_NAME)) =>
          /\ SameEntries(BodyOf("VmDetach").data_disks, fetched)
          /\ SameEntries(virtual_machine.data_disks, fetched)

\* attach and detach both completed on a VM that already had a data disk
C4_Witness ==
    /\ AttachCompleted
    /\ WasAwaited("VmDetach") /\ ~FailedAt({"detach_result"})
    /\ Len(fetched) > 0
    /\ ~HoldsName(fetched, DATA_DISK_NAME)
    /\ HoldsName(BodyOf("VmAttach").data_disks, DATA_DISK_NAME)

----------------------------------------------------------------------------
(* C5 *)

\* C5: after a failed virtual-network creation neither the subnet nor the
\* interface creation is issued; after a failed subnet creation the interface
\* creation is not issued; and after a failure inside create_nic the only
\* call that follows is the group deletion of run_example's finally block.
C5_CreateNicFailsFast ==
    /\ FailedAt({"vnet_begin", "vnet_result"})
          => ~Issued("SubnetCreate") /\ ~Issued("NicCreate")
    /\ FailedAt({"subnet_begin", "subnet_result"}) => ~Issued("NicCreate")
    /\ \A k \in 1..Len(failures) :
          failures[k].at \in CreateNicBody =>
              /\ \A i \in 1..Len(CallsAfter(k)) : CallsAfter(k)[i].op = "GroupDelete"
              /\ (pc \in {"except", "finally_begin"} => CallsAfter(k) = <<>>)

\* the wait for the virtual network raised and the run has ended
C5_Witness ==
    /\ Finished
    /\ FailedAt({"vnet_result"})
    /\ Issued("VnetCreate")

\* the subnet creation was refused and the run has ended
C5_WitnessSubnet ==
    /\ Finished
    /\ FailedAt({"subnet_begin"})

----------------------------------------------------------------------------
(* C6 *)

\* C6: the Windows VM is submitted with exactly one network interface, the
\* one create_nic returned and the Linux VM was created with, and the
\* interface was created once.
C6_WindowsReusesNic ==
    Issued("VmCreateWindows") =>
        /\ BodyOf("VmCreateWindows").network_profile.network_interfaces
              = << [id |-> nic.id] >>
        /\ BodyOf("VmCreateLinux").network_profile.network_interfaces
              = << [id |-> nic.id] >>
        /\ Count("NicCreate") = 1
        /\ WasAwaited("VmDelete")

\* the Windows VM was submitted with the interface create_nic returned
C6_Witness ==
    /\ Issued("VmCreateWindows")
    /\ nic.id = MaxNicId
    /\ BodyOf("VmCreateWindows").storage_profile.image_reference = VM_REFERENCE.windows

----------------------------------------------------------------------------
(* C7 *)

\* C7: at most one operation is pending, it is the one the last call
\* started, and every earlier long-running call was awaited unless its
\* begin_* raised.
C7_OnePendingOperation ==
    /\ Cardinality(pending) <= 1
    /\ pending # {} => (Len(calls) > 0 /\ pending = {calls[Len(calls)].op})
    /\ \A i \in 1..Len(calls) :
          (calls[i].op \in LongRunningOps /\ calls[i].op \notin pending)
              => (WasAwaited(calls[i].op) \/ Refused(i))

\* the deallocation is pending while run_example waits for it
C7_Witness ==
    /\ pending = {"VmDeallocate"}
    /\ pc = "deallocate_result"
    /\ WasAwaited("VmDetach")

----------------------------------------------------------------------------
(* C8 *)

\* C8: after a failure in the try block the run has printed a failure
\* report before the deletion banner, has not printed the success message,
\* and has printed something about the outcome of the deletion after its
\* banner.
C8_FailureAndCleanupReported ==
    (Finished /\ FailedAt(TryBody)) =>
        /\ \E i, j \in 1..Len(out) :
              /\ i < j
              /\ out[i] = "A VM operation failed:"
              /\ out[j] = "Delete Resource Group"
        /\ ~Said("All example operations completed successfully!")
        /\ out[Len(out)] # "Delete Resource Group"

----------------------------------------------------------------------------
(* C9 *)

\* C9: after a failure in the try block nothing is issued but the group
\* deletion, once; after a failure of the deletion nothing is issued.
C9_FailureIsFatal ==
    \A k \in 1..Len(failures) :
        /\ failures[k].at \in TryBody =>
              /\ Len(CallsAfter(k)) <= 1
              /\ \A i \in 1..Len(CallsAfter(k)) : CallsAfter(k)[i].op = "GroupDelete"
        /\ failures[k].at \in {"finally_begin", "finally_result"} =>
              CallsAfter(k) = <<>>

\* the tagging of the VM failed and the run ended with the deletion
C9_Witness ==
    /\ Finished
    /\ FailedAt({"tag_result"})
    /\ Ops[Len(Ops)] = "GroupDelete"
    /\ Count("VmTag") = 1

----------------------------------------------------------------------------
(* C10 *)

\* the calls are a prefix of CallOrder, possibly followed by the deletion
OrderedCalls ==
    /\ LET n == Len(calls)
       IN  \/ IsPrefix(Ops, CallOrder)
           \/ /\ n >= 2
              /\ calls[n].op = "GroupDelete"
              /\ IsPrefix(SubSeq(Ops, 1, n - 1), CallOrder)
    /\ Issued("DiskUpdate") =>
          (WasAwaited("VmDeallocate") /\ ~FailedAt({"deallocate_begin", "deallocate_result"}))
    /\ Issued("VmCreateWindows") =>
          (WasAwaited("VmDelete") /\ ~FailedAt({"vm_delete_begin", "vm_delete_result"}))
    /\ ~GroupCreated => Len(calls) <= 1

\* C10 (as stated): in every run the calls are a prefix of the fixed order
\* followed by the group deletion.
C10_EveryRunEndsWithDelete ==
    /\ OrderedCalls
    /\ Finished => calls[Len(calls)].op = "GroupDelete"

\* C10 (amended): the same for every run in which the group creation
\* returns; a run in which it raises issues no other call.
C10_OrderWhenGroupCreated ==
    /\ OrderedCalls
    /\ (Finished /\ GroupCreated) => calls[Len(calls)].op = "GroupDelete"
    /\ (Finished /\ ~GroupCreated) => Ops = << "GroupCreate" >>

\* a complete run: all of CallOrder, then the deletion
C10_Witness ==
    /\ Finished
    /\ Ops = CallOrder \o << "GroupDelete" >>

====
